---- MODULE Spec2Model ----
(***************************************************************************)
(* Model of the HTTPServer class of @mikosoft/spa-server: the resolution   *)
(* of a request URL to a content type and a file path, and the life of a   *)
(* response (not-found, HTML read, render, compression, streaming, the     *)
(* per-request timeout timer).                                             *)
(*                                                                         *)
(* A JavaScript string is a sequence of one-character strings, so that     *)
(* split, join, replace and the regular expressions of the code are        *)
(* computed character by character.                                        *)
(***************************************************************************)
EXTENDS Integers, Sequences, FiniteSets, TLC

VARIABLES
  httpOpts,   \* this.httpOpts after the constructor
  probe,      \* the last resolution computed by the resolution step
  req,        \* the requests of the listener and their responses
  crashed     \* the process ended on an exception nobody caught

vars == <<httpOpts, probe, req, crashed>>

----------------------------------------------------------------------------
(* Bounds of the model *)

\* directory segments in front of the final segment of a generated URL
MaxDepth == 2

\* requests received by one server
MaxReq == 1

----------------------------------------------------------------------------
(* JavaScript string helpers *)

Last(s) == s[Len(s)]

\* the index of the first occurrence of character c in s, 0 when absent
IndexOf(s, c) ==
  IF \E i \in 1..Len(s) : s[i] = c
  THEN CHOOSE i \in 1..Len(s) : s[i] = c /\ \A j \in 1..(i - 1) : s[j] # c
  ELSE 0

RECURSIVE Split(_, _)
\* String.prototype.split on a one-character separator
Split(s, sep) ==
  LET i == IndexOf(s, sep)
  IN IF i = 0 THEN <<s>>
     ELSE <<SubSeq(s, 1, i - 1)>> \o Split(SubSeq(s, i + 1, Len(s)), sep)

RECURSIVE Join(_, _)
\* Array.prototype.join
Join(parts, sep) ==
  IF Len(parts) = 0 THEN <<>>
  ELSE IF Len(parts) = 1 THEN parts[1]
  ELSE parts[1] \o sep \o Join(Tail(parts), sep)

RECURSIVE Trim(_)
\* String.prototype.trim (blanks at both ends)
Trim(s) ==
  IF Len(s) = 0 THEN s
  ELSE IF s[1] = " " THEN Trim(Tail(s))
  ELSE IF Last(s) = " " THEN Trim(SubSeq(s, 1, Len(s) - 1))
  ELSE s

\* letter case of the characters the model uses in upper case
Lower(c) ==
  CASE c = "I" -> "i"
    [] c = "J" -> "j"
    [] c = "S" -> "s"
    [] OTHER -> c

LowerStr(s) == [i \in 1..Len(s) |-> Lower(s[i])]

\* needle occurs in s at position i
OccursAt(s, needle, i) ==
  /\ i >= 1
  /\ i + Len(needle) - 1 <= Len(s)
  /\ SubSeq(s, i, i + Len(needle) - 1) = needle

Contains(s, needle) == \E i \in 1..(Len(s) + 1) : OccursAt(s, needle, i)

----------------------------------------------------------------------------
(* Regular expressions of the rewrite keys: new RegExp(key, 'i') where key *)
(* is a literal, optionally anchored with ^.  A key is                     *)
(* [anchored |-> BOOLEAN, lit |-> string].                                 *)

RegMatchAt(key, s, i) == OccursAt(LowerStr(s), LowerStr(key.lit), i)

RegPositions(key, s) ==
  {i \in (IF key.anchored THEN {1} ELSE 1..(Len(s) + 1)) : RegMatchAt(key, s, i)}

\* RegExp.prototype.test
RegTest(key, s) == RegPositions(key, s) # {}

\* String.prototype.replace(reg, val): the leftmost match only (no g flag)
RegReplace(key, s, val) ==
  IF RegPositions(key, s) = {} THEN s
  ELSE LET i == CHOOSE k \in RegPositions(key, s) :
                  \A j \in RegPositions(key, s) : k <= j
       IN SubSeq(s, 1, i - 1) \o val \o SubSeq(s, i + Len(key.lit), Len(s))

\* reqURL.replace(/\?.+/, ''): from the leftmost ? that has a character
\* after it, to the end
StripQuery(s) ==
  LET qs == {i \in 1..(Len(s) - 1) : s[i] = "?"}
  IN IF qs = {} THEN s
     ELSE SubSeq(s, 1, (CHOOSE i \in qs : \A j \in qs : i <= j) - 1)

----------------------------------------------------------------------------
(* path.join of Node (posix) *)

RECURSIVE NormSegs(_, _, _)
\* normalizeString: drops empty and '.' segments, resolves '..'
NormSegs(segs, acc, allowAboveRoot) ==
  IF Len(segs) = 0 THEN acc
  ELSE LET seg == Head(segs)
           acc2 == IF seg = <<>> \/ seg = <<".">> THEN acc
                   ELSE IF seg = <<".", ".">>
                        THEN IF Len(acc) > 0 /\ Last(acc) # <<".", ".">>
                             THEN SubSeq(acc, 1, Len(acc) - 1)
                             ELSE IF allowAboveRoot THEN Append(acc, seg)
                             ELSE acc
                   ELSE Append(acc, seg)
       IN NormSegs(Tail(segs), acc2, allowAboveRoot)

\* path.normalize
Normalize(p) ==
  IF Len(p) = 0 THEN <<".">>
  ELSE LET isAbsolute == p[1] = "/"
           trailingSeparator == Last(p) = "/"
           body == Join(NormSegs(Split(p, "/"), <<>>, ~isAbsolute), <<"/">>)
       IN IF Len(body) = 0
          THEN (IF isAbsolute THEN <<"/">>
                ELSE IF trailingSeparator THEN <<".", "/">> ELSE <<".">>)
          ELSE (IF isAbsolute THEN <<"/">> ELSE <<>>) \o body
                 \o (IF trailingSeparator THEN <<"/">> ELSE <<>>)

\* path.join: the non-empty arguments joined by '/', then normalized
PathJoin(args) ==
  Normalize(Join(SelectSeq(args, LAMBDA a : Len(a) > 0), <<"/">>))

----------------------------------------------------------------------------
(* Words of the model *)

S_dist == <<"d", "i", "s", "t">>
S_index_html == <<"i", "n", "d", "e", "x", ".", "h", "t", "m", "l">>
S_page_html == <<"p", "a", "g", "e", ".", "h", "t", "m", "l">>

\* process.cwd()
Cwd == <<"/", "s", "r", "v">>

E_html == <<"h", "t", "m", "l">>
E_htm == <<"h", "t", "m">>
E_txt == <<"t", "x", "t">>
E_css == <<"c", "s", "s">>
E_gif == <<"g", "i", "f">>
E_jpg == <<"j", "p", "g">>
E_jpeg == <<"j", "p", "e", "g">>
E_svg == <<"s", "v", "g">>
E_png == <<"p", "n", "g">>
E_webp == <<"w", "e", "b", "p">>
E_ico == <<"i", "c", "o">>
E_js == <<"j", "s">>
E_json == <<"j", "s", "o", "n">>
E_mp4 == <<"m", "p", "4">>
E_woff == <<"w", "o", "f", "f">>
E_woff2 == <<"w", "o", "f", "f", "2">>
E_ttf == <<"t", "t", "f">>
E_map == <<"m", "a", "p">>
E_css_map == E_css \o <<".">> \o E_map
E_js_map == E_js \o <<".">> \o E_map

----------------------------------------------------------------------------
(* Resolution: HTTPServer._solveFileExtension, _solveContentType,          *)
(* _solveFilePath                                                          *)

\* a plausible slip: always the last dot-segment alone
solveFileExtension_lastOnly(reqURL_noquery) ==
  LET filename == Last(Split(reqURL_noquery, "/"))
      parts == Split(filename, ".")
  IN IF Len(parts) = 1 THEN <<>> ELSE parts[Len(parts)]

solveFileExtension(reqURL_noquery) ==
  LET filename == Last(Split(reqURL_noquery, "/"))
      parts == Split(filename, ".")
  IN IF Len(parts) = 1 THEN <<>>
     ELSE IF Len(parts) > 2
          THEN Join(SubSeq(parts, Len(parts) - 1, Len(parts)), <<".">>)
          ELSE parts[Len(parts)]

\* the if / else-if chain of anchored, case-sensitive tests on fileExt
MimeOf(fileExt) ==
  CASE fileExt = E_html -> "text/html"
    [] fileExt = E_htm -> "text/html"
    [] fileExt = E_txt -> "text/plain"
    [] fileExt = E_css -> "text/css"
    [] fileExt = E_gif -> "image/gif"
    [] fileExt = E_jpg -> "image/jpeg"
    [] fileExt = E_jpeg -> "image/jpeg"
    [] fileExt = E_svg -> "image/svg+xml"
    [] fileExt = E_png -> "image/png"
    [] fileExt = E_webp -> "image/webp"
    [] fileExt = E_ico -> "image/x-icon"
    [] fileExt = E_js -> "application/javascript"
    [] fileExt = E_json -> "application/json"
    [] fileExt = E_mp4 -> "video/mp4"
    [] fileExt = E_woff -> "font/woff"
    [] fileExt = E_woff2 -> "font/woff2"
    [] fileExt = E_ttf -> "font/ttf"
    [] fileExt = E_css_map -> "application/json"
    [] fileExt = E_js_map -> "application/json"
    [] OTHER -> "text/html"

\* a plausible slip: an extension the chain does not know is a download
solveContentType_unknownIsBinary(reqURL_noquery) ==
  LET fileExt == solveFileExtension(reqURL_noquery)
  IN IF fileExt \notin {<<>>, E_html, E_htm} /\ MimeOf(fileExt) = "text/html"
     THEN "application/octet-stream"
     ELSE MimeOf(fileExt)

solveContentType(reqURL_noquery) == MimeOf(solveFileExtension(reqURL_noquery))

RECURSIVE RewriteLoop(_, _, _, _)
RECURSIVE RewriteLoop_chained(_, _, _, _)

\* a plausible slip: a rule is tested against, and applied to, the URL as the
\* rules before it left it
RewriteLoop_chained(reqURL_noquery, rules, i, filePath) ==
  IF i > Len(rules) THEN filePath
  ELSE IF RegTest(rules[i].key, reqURL_noquery)
       THEN RewriteLoop_chained(RegReplace(rules[i].key, reqURL_noquery, rules[i].val),
                                rules, i + 1,
                                PathJoin(<<Cwd, RegReplace(rules[i].key, reqURL_noquery,
                                                           rules[i].val)>>))
       ELSE RewriteLoop_chained(reqURL_noquery, rules, i + 1, filePath)

\* a plausible slip: the static directory is joined in front of a rewritten URL
RewriteLoop_underStatic(reqURL_noquery, rules, i, filePath) ==
  IF i > Len(rules) THEN filePath
  ELSE RewriteLoop(reqURL_noquery, rules, i + 1,
         IF RegTest(rules[i].key, reqURL_noquery)
         THEN PathJoin(<<Cwd, httpOpts.staticDir,
                         RegReplace(rules[i].key, reqURL_noquery, rules[i].val)>>)
         ELSE filePath)

\* the for loop over Object.entries(urlRewrite): every matching rule
\* assigns filePath, there is no break
RewriteLoop(reqURL_noquery, rules, i, filePath) ==
  IF i > Len(rules) THEN filePath
  ELSE RewriteLoop(reqURL_noquery, rules, i + 1,
         IF RegTest(rules[i].key, reqURL_noquery)
         THEN PathJoin(<<Cwd, RegReplace(rules[i].key, reqURL_noquery, rules[i].val)>>)
         ELSE filePath)

\* a plausible slip: the index file is looked up under the requested path
solveFilePath_indexUnderPath(reqURL_noquery) ==
  IF solveFileExtension(reqURL_noquery) # <<>>
  THEN RewriteLoop(reqURL_noquery, httpOpts.urlRewrite, 1,
                   PathJoin(<<Cwd, httpOpts.staticDir, reqURL_noquery>>))
  ELSE PathJoin(<<Cwd, httpOpts.staticDir, reqURL_noquery, httpOpts.indexFile>>)

\* a plausible slip: the rules compiled once with the g flag, whose lastIndex
\* makes test() fail on every second request
solveFilePath_statefulRegex(reqURL_noquery) ==
  IF solveFileExtension(reqURL_noquery) # <<>>
  THEN IF Cardinality({r \in DOMAIN req : req[r].pc # "none"}) % 2 = 0
       THEN RewriteLoop(reqURL_noquery, httpOpts.urlRewrite, 1,
                        PathJoin(<<Cwd, httpOpts.staticDir, reqURL_noquery>>))
       ELSE PathJoin(<<Cwd, httpOpts.staticDir, reqURL_noquery>>)
  ELSE PathJoin(<<Cwd, httpOpts.staticDir, httpOpts.indexFile>>)

solveFilePath(reqURL_noquery) ==
  IF solveFileExtension(reqURL_noquery) # <<>>
  THEN RewriteLoop(reqURL_noquery, httpOpts.urlRewrite, 1,
                   PathJoin(<<Cwd, httpOpts.staticDir, reqURL_noquery>>))
  ELSE PathJoin(<<Cwd, httpOpts.staticDir, httpOpts.indexFile>>)

----------------------------------------------------------------------------
(* Inputs: request URLs and configurations *)

S_image == <<"i", "m", "a", "g", "e">>
S_Image == <<"I", "m", "a", "g", "e">>
S_assets == <<"a", "s", "s", "e", "t", "s">>
S_public_img == <<"/", "p", "u", "b", "l", "i", "c", "/", "i", "m", "g">>
S_other == <<"/", "o", "t", "h", "e", "r">>
S_dist_static == <<"/", "d", "i", "s", "t", "/", "s", "t", "a", "t", "i", "c">>
S_img == <<"i", "m", "g">>

F_pets == <<"p", "e", "t", "s">>
F_README == <<"R", "E", "A", "D", "M", "E">>
F_style_css == <<"s", "t", "y", "l", "e", ".", "c", "s", "s">>
F_file_js_map == <<"f", "i", "l", "e", ".", "j", "s", ".", "m", "a", "p">>
F_app_min_js == <<"a", "p", "p", ".", "m", "i", "n", ".", "j", "s">>
F_logo_v2_png == <<"l", "o", "g", "o", ".", "v", "2", ".", "p", "n", "g">>
F_x_webp == <<"x", ".", "w", "e", "b", "p">>
F_x_JS == <<"x", ".", "J", "S">>
F_x_zz == <<"x", ".", "z", "z">>
F_a_dot == <<"a", ".">>

Q_v47 == <<"?", "v", "=", "4", ".", "7">>

\* directory segments of the generated URLs
DirSegs == {<<"a">>, S_image, S_Image, S_assets, <<".", ".">>}

\* final segments of the generated URLs (the empty one is a trailing slash)
FileSegs == {<<>>, F_pets, F_README, F_style_css, F_file_js_map, F_app_min_js,
             F_logo_v2_png, F_x_webp, F_x_JS, F_x_zz, F_a_dot}

\* query parts: none, a lone ?, ?v=4.7
Queries == {<<>>, <<"?">>, Q_v47}

RECURSIVE DirPaths(_)
DirPaths(n) ==
  IF n = 0 THEN {<<>>}
  ELSE DirPaths(n - 1) \cup {p \o <<"/">> \o d : p \in DirPaths(n - 1), d \in DirSegs}

\* req.url of the requests
URLs == {p \o <<"/">> \o f \o q : p \in DirPaths(MaxDepth), f \in FileSegs, q \in Queries}

\* entries of httpOpts.urlRewrite
R_image == [key |-> [anchored |-> TRUE, lit |-> <<"/">> \o S_image], val |-> S_public_img]
R_im == [key |-> [anchored |-> TRUE, lit |-> <<"/", "i", "m">>], val |-> S_other]
R_assets == [key |-> [anchored |-> TRUE, lit |-> <<"/">> \o S_assets], val |-> S_dist_static]
R_anyImage == [key |-> [anchored |-> FALSE, lit |-> S_image], val |-> S_img]

\* httpOpts.urlRewrite in insertion order (the order of Object.entries)
RewriteTables == {<<>>, <<R_image>>, <<R_image, R_im>>, <<R_im, R_image>>,
                  <<R_assets>>, <<R_anyImage, R_assets>>}

----------------------------------------------------------------------------
(* The request handler's resolution step *)

NoProbe == [done |-> FALSE, reqURL |-> <<>>, reqURL_noquery |-> <<>>,
            fileExt |-> <<>>, contentType |-> "", filePath |-> <<>>]

\* reqURL.trim().replace(/\?.+/, '')
NoQuery(reqURL) == StripQuery(Trim(reqURL))

Resolution(reqURL) ==
  LET reqURL_noquery == NoQuery(reqURL)
  IN [done |-> TRUE,
      reqURL |-> reqURL,
      reqURL_noquery |-> reqURL_noquery,
      fileExt |-> solveFileExtension(reqURL_noquery),
      contentType |-> solveContentType(reqURL_noquery),
      filePath |-> solveFilePath(reqURL_noquery)]

----------------------------------------------------------------------------
(* Request headers *)

\* accept-encoding headers of the requests (the empty one: header missing)
AE_gzip == <<"g", "z", "i", "p">>
AE_deflate == <<"d", "e", "f", "l", "a", "t", "e">>
AE_gzip_br == <<"g", "z", "i", "p", ",", " ", "b", "r">>
AE_xgzip == <<"x", "g", "z", "i", "p">>

\* user-agent headers of the requests (the empty one: header missing)
UA_Googlebot == <<"G", "o", "o", "g", "l", "e", "b", "o", "t", "/", "2", ".", "1">>
UA_Mozilla == <<"M", "o", "z", "i", "l", "l", "a", "/", "5", ".", "0">>

\* the characters \w of a regular expression, among those of the headers
IsWordChar(c) == c \notin {",", " ", "/", ".", ";", "=", "*", "-"}

\* /\bword\b/ : word occurs with a word boundary on both sides
MatchWord(s, word) ==
  \E i \in 1..Len(s) :
    /\ OccursAt(s, word, i)
    /\ (i = 1 \/ ~IsWordChar(s[i - 1]))
    /\ (i + Len(word) > Len(s) \/ ~IsWordChar(s[i + Len(word)]))

\* upper-case letters of the user agents
LowerUA(c) ==
  CASE c = "G" -> "g"
    [] c = "M" -> "m"
    [] c = "B" -> "b"
    [] c = "N" -> "n"
    [] c = "O" -> "o"
    [] c = "T" -> "t"
    [] c = "C" -> "c"
    [] c = "X" -> "x"
    [] OTHER -> Lower(c)

\* botUserAgents, all tested with the i flag
BotSignatures ==
  {<<"g", "o", "o", "g", "l", "e", "b", "o", "t">>,
   <<"b", "i", "n", "g", "b", "o", "t">>,
   <<"s", "l", "u", "r", "p">>,
   <<"d", "u", "c", "k", "d", "u", "c", "k", "b", "o", "t">>,
   <<"b", "a", "i", "d", "u", "s", "p", "i", "d", "e", "r">>,
   <<"y", "a", "n", "d", "e", "x", "b", "o", "t">>,
   <<"s", "o", "g", "o", "u">>,
   <<"e", "x", "a", "b", "o", "t">>,
   <<"f", "a", "c", "e", "b", "o", "t">>,
   <<"i", "a", "_", "a", "r", "c", "h", "i", "v", "e", "r">>,
   <<"t", "w", "i", "t", "t", "e", "r", "b", "o", "t">>,
   <<"l", "i", "n", "k", "e", "d", "i", "n", "b", "o", "t">>,
   <<"r", "e", "d", "d", "i", "t", "b", "o", "t">>,
   <<"a", "p", "p", "l", "e", "b", "o", "t">>,
   <<"d", "i", "s", "c", "o", "r", "d", "b", "o", "t">>,
   <<"t", "e", "l", "e", "g", "r", "a", "m", "b", "o", "t">>,
   <<"w", "h", "a", "t", "s", "a", "p", "p">>,
   <<"p", "i", "n", "g", "d", "o", "m">>,
   <<"s", "e", "m", "r", "u", "s", "h", "b", "o", "t">>,
   <<"d", "o", "t", "b", "o", "t">>,
   <<"b", "l", "e", "x", "b", "o", "t">>,
   <<"b", "a", "r", "k", "r", "o", "w", "l", "e", "r">>,
   <<"b", "o", "t">>,
   <<"c", "r", "a", "w", "l", "e", "r">>,
   <<"s", "p", "i", "d", "e", "r">>,
   <<"r", "o", "b", "o", "t">>,
   <<"c", "r", "a", "w", "l", "i", "n", "g">>}

\* a plausible slip: the list tested without the i flag
isBot_caseSensitive(userAgent) ==
  IF Len(userAgent) = 0 THEN FALSE
  ELSE \E sig \in BotSignatures : Contains(userAgent, sig)

\* HTTPServer._isBot on the user-agent header
isBot(userAgent) ==
  IF Len(userAgent) = 0 THEN FALSE
  ELSE \E sig \in BotSignatures :
         Contains([i \in 1..Len(userAgent) |-> LowerUA(userAgent[i])], sig)

----------------------------------------------------------------------------
(* The response object (http.ServerResponse) *)

FreshRes ==
  [headersSent |-> FALSE,      \* res.headersSent
   statusCode |-> 0,           \* status line written by writeHead, 0: none
   custom |-> {},              \* custom headers set with setHeader
   contentType |-> "",         \* Content-Type
   server |-> "",              \* Server
   xError |-> <<>>,            \* X-Error
   contentEncoding |-> "",     \* Content-Encoding
   ended |-> FALSE,            \* res.end was called
   body |-> <<>>]              \* what was handed to res.end or piped

Msg404(filePath) == <<"404 File Not Found: \"">> \o filePath \o <<"\"">>
Msg408(reqURL) == <<"408 Request Timeout: ">> \o reqURL
MsgHeadersSent == <<"Cannot write headers after they are sent to the client">>
MsgReadFile(filePath) == <<"EISDIR: illegal operation on a directory, read ">> \o filePath
MsgRender == <<"render error">>
MsgZlib == <<"zlib error">>

\* the A) block of _sendResponse
setHeaders(res, contentType) ==
  [res EXCEPT !.custom = httpOpts.responseHeaders,
              !.contentType = contentType,
              !.server = "@mikosoft/spa-server"]

\* res.writeHead(200, {'Content-Encoding': enc}) or res.writeHead(200);
\* writeHead throws ERR_HTTP_HEADERS_SENT once the headers were sent
writeHead200(res, enc) ==
  IF res.headersSent THEN [res |-> res, threw |-> TRUE]
  ELSE [res |-> [res EXCEPT !.headersSent = TRUE, !.statusCode = 200,
                            !.contentEncoding = enc],
        threw |-> FALSE]

\* res.end(data)
end(res, data) ==
  IF res.ended THEN res ELSE [res EXCEPT !.ended = TRUE, !.body = data]

\* variant: the not-found answer of services/HTTPServer.js, res.end() with no body
handleError_noBody(res, errMsg) ==
  IF res.headersSent THEN [res |-> res, threw |-> TRUE]
  ELSE [res |-> [res EXCEPT !.headersSent = TRUE, !.statusCode = 404,
                            !.xError = errMsg, !.ended = TRUE],
        threw |-> FALSE]

\* a plausible slip: the message is logged and sent as body, the header forgotten
handleError_noHeader(res, errMsg) ==
  IF res.headersSent THEN [res |-> res, threw |-> TRUE]
  ELSE [res |-> end([res EXCEPT !.headersSent = TRUE, !.statusCode = 404,
                                !.contentType = "text/plain"], errMsg),
        threw |-> FALSE]

\* HTTPServer._handleError: writeHead(404, {Content-Type, X-Error}), end(errMsg)
handleError(res, errMsg) ==
  IF res.headersSent THEN [res |-> res, threw |-> TRUE]
  ELSE [res |-> end([res EXCEPT !.headersSent = TRUE, !.statusCode = 404,
                                !.contentType = "text/plain",
                                !.xError = errMsg], errMsg),
        threw |-> FALSE]

\* a plausible slip: the configured acceptEncoding is not consulted
chosenEncoding_clientOnly(acceptEncodingBrowser) ==
  IF MatchWord(acceptEncodingBrowser, AE_gzip) THEN "gzip"
  ELSE IF MatchWord(acceptEncodingBrowser, AE_deflate) THEN "deflate"
  ELSE ""

\* the encoding _sendCompressedResponse chooses
chosenEncoding(acceptEncodingBrowser) ==
  IF MatchWord(acceptEncodingBrowser, AE_gzip) /\ httpOpts.acceptEncoding = "gzip"
  THEN "gzip"
  ELSE IF MatchWord(acceptEncodingBrowser, AE_deflate) /\ httpOpts.acceptEncoding = "deflate"
  THEN "deflate"
  ELSE ""

\* _sendCompressedResponse on a string: [res, pc, threw, via], via the zlib
\* function the string is handed to ("": none)
sendCompressedString(res, data, acceptEncodingBrowser) ==
  LET enc == chosenEncoding(acceptEncodingBrowser)
      w == writeHead200(res, enc)
  IN IF w.threw THEN [res |-> res, pc |-> "done", threw |-> TRUE, via |-> ""]
     ELSE IF enc # "" THEN [res |-> w.res, pc |-> "zlib", threw |-> FALSE, via |-> enc]
     ELSE [res |-> end(w.res, data), pc |-> "done", threw |-> FALSE, via |-> ""]

\* _sendCompressedResponse on a stream: [res, pc, threw, via], via the zlib
\* stream the file is piped through ("": none)
sendCompressedStream(res, acceptEncodingBrowser) ==
  LET enc == chosenEncoding(acceptEncodingBrowser)
      w == writeHead200(res, enc)
  IN IF w.threw THEN [res |-> res, pc |-> "done", threw |-> TRUE, via |-> ""]
     ELSE [res |-> w.res, pc |-> "piping", threw |-> FALSE, via |-> enc]

\* the catch block of _sendResponse around a step that gave [res, pc, threw]:
\* _handleError(res, err.message), whose own exception rejects the promise
\* of _sendResponse, which nobody awaits
catch(out, errMsg) ==
  IF ~out.threw THEN [res |-> out.res, pc |-> out.pc, rejected |-> FALSE]
  ELSE LET h == handleError(out.res, errMsg)
       IN [res |-> h.res, pc |-> "done", rejected |-> h.threw]

\* a plausible slip: every policy but none renders for every client
doSSR_anyPolicy(userAgent) == httpOpts.ssr # "none"

\* a plausible slip: the policy is compared whatever its letter case and
\* its dashes
doSSR_anySpelling(userAgent) ==
  \/ httpOpts.ssr \in {"all", "ALL"}
  \/ httpOpts.ssr \in {"botsonly", "bots-only"} /\ isBot(userAgent)

\* doSSR of _sendResponse
doSSR(userAgent) ==
  /\ httpOpts.ssr # "none"
  /\ (httpOpts.ssr = "all" \/ (httpOpts.ssr = "botsonly" /\ isBot(userAgent)))

\* a plausible slip: the listeners of 'finish' and 'close' clear nothing
clearTimeout_noop(timer) == timer

\* clearTimeout(timeoutId)
clearTimeout(timer) == IF timer = "armed" THEN "cleared" ELSE timer

----------------------------------------------------------------------------
(* Configurations and requests of the listener *)

\* 5 * 60 * 1000, the default of httpOpts.timeout
DefaultTimeout == 300000

H_cors == {<<"Access-Control-Allow-Origin", "*">>}

\* the argument of the constructor: a record of the options the user gives
\* (an option that is not given is not a field); here of a user who gives the
\* custom headers under the option responseHeaders
Options(indexFile, urlRewrite, timeout, acceptEncoding, ssr) ==
  [staticDir |-> S_dist, indexFile |-> indexFile, urlRewrite |-> urlRewrite,
   port |-> 3000, timeout |-> timeout, acceptEncoding |-> acceptEncoding,
   responseHeaders |-> H_cors, ssr |-> ssr]

\* the least a user gives: the port
MinimalOptions == [port |-> 3000]

\* opts without the option name
Without(opts, name) == [n \in DOMAIN opts \ {name} |-> opts[n]]

\* the option name was given (is not undefined)
Given(opts, name) == name \in DOMAIN opts

\* httpOpts as the constructor leaves it, but for the timeout: the options
\* tested with !option get their default when they are omitted or falsy.  The
\* options the constructor does not read stay as given (here {} and "null"
\* when omitted); user keeps the argument as it was given
constructed(opts, timeout) ==
  [staticDir |-> IF Given(opts, "staticDir") /\ opts.staticDir # <<>>
                 THEN opts.staticDir ELSE S_dist,
   indexFile |-> IF Given(opts, "indexFile") /\ opts.indexFile # <<>>
                 THEN opts.indexFile ELSE S_index_html,
   urlRewrite |-> IF Given(opts, "urlRewrite") THEN opts.urlRewrite ELSE <<>>,
   timeout |-> timeout,
   acceptEncoding |-> IF Given(opts, "acceptEncoding") THEN opts.acceptEncoding ELSE "",
   headers |-> IF Given(opts, "headers") THEN opts.headers ELSE {},
   responseHeaders |-> IF Given(opts, "responseHeaders") THEN opts.responseHeaders ELSE {},
   ssr |-> IF Given(opts, "ssr") /\ opts.ssr # "" THEN opts.ssr ELSE "none",
   ssrModifier |-> IF Given(opts, "ssrModifier") THEN opts.ssrModifier ELSE "null",
   user |-> opts]

\* a plausible slip: the timeout defaulted like the other options, with
\* !this.httpOpts.timeout
constructor_falsyTimeout(opts) ==
  constructed(opts, IF Given(opts, "timeout") /\ opts.timeout # 0
                    THEN opts.timeout ELSE DefaultTimeout)

\* HTTPServer.constructor: the timeout gets its default only when it is
\* undefined
constructor(opts) ==
  constructed(opts, IF Given(opts, "timeout") THEN opts.timeout ELSE DefaultTimeout)

\* httpOpts after the constructor, of a user who gave the custom headers under
\* the option responseHeaders
Config(indexFile, urlRewrite, timeout, acceptEncoding, ssr) ==
  constructor(Options(indexFile, urlRewrite, timeout, acceptEncoding, ssr))

\* httpOpts after the constructor, of a user who gave the custom headers under
\* the option headers, as the README and the test do: responseHeaders is not
\* given and the constructor sets it to {}
ConfigReadme(indexFile, urlRewrite, timeout, acceptEncoding, ssr) ==
  constructor(Without(Options(indexFile, urlRewrite, timeout, acceptEncoding, ssr),
                      "responseHeaders")
              @@ [headers |-> H_cors])

\* configurations of the resolution runs
ResolveConfigs ==
  {Config(f, t, DefaultTimeout, "gzip", "none") :
     f \in {S_index_html, S_page_html}, t \in RewriteTables}

\* configurations of the listener runs
LifeConfigs ==
  {constructor(MinimalOptions),
   Config(S_index_html, <<R_image>>, DefaultTimeout, "gzip", "all"),
   Config(S_index_html, <<R_image>>, DefaultTimeout, "deflate", "botsonly"),
   Config(S_index_html, <<R_image>>, 0, "gzip", "all"),
   ConfigReadme(S_index_html, <<R_image>>, DefaultTimeout, "gzip", "botsonly"),
   Config(S_index_html, <<>>, 0, "gzip", "bots-only"),
   Config(S_index_html, <<>>, 0, "", "ALL")}

\* req.url of the listener runs: /pets?v=4.7, /style.css, /image/x.zz
LifeURLs == {<<"/">> \o F_pets \o Q_v47,
             <<"/">> \o F_style_css,
             <<"/">> \o S_image \o <<"/">> \o F_x_zz}

LifeAcceptEncodings == {<<>>, AE_gzip_br, AE_deflate}

LifeUserAgents == {UA_Mozilla, UA_Googlebot}

\* the requests of the listener runs: the page from a browser with every
\* accept-encoding, from Googlebot with gzip, and with neither header; the
\* stylesheet from a browser with every accept-encoding; /image/x.zz with
\* neither header
LifeRequests ==
  {q \in [reqURL : LifeURLs, acceptEncoding : LifeAcceptEncodings,
          userAgent : LifeUserAgents \cup {<<>>}] :
     \/ /\ q.reqURL = <<"/">> \o F_pets \o Q_v47
        /\ \/ q.userAgent = UA_Mozilla
           \/ q.userAgent = UA_Googlebot /\ q.acceptEncoding = AE_gzip_br
           \/ q.userAgent = <<>> /\ q.acceptEncoding = <<>>
     \/ q.reqURL = <<"/">> \o F_style_css /\ q.userAgent = UA_Mozilla
     \/ /\ q.reqURL = <<"/">> \o S_image \o <<"/">> \o F_x_zz
        /\ q.acceptEncoding = <<>>
        /\ q.userAgent = <<>>}

HTML_initial == <<"initialHTML">>
HTML_rendered == <<"renderedHTML">>
FileBytes == <<"file bytes">>

NoRequest ==
  [pc |-> "none",              \* where _sendResponse stands
   reqURL |-> <<>>,            \* req.url
   contentType |-> "",
   filePath |-> <<>>,
   exists |-> FALSE,           \* fs.existsSync(filePath) in _sendResponse
   acceptEncoding |-> <<>>,    \* req.headers['accept-encoding'] || ''
   userAgent |-> <<>>,         \* req.headers['user-agent']
   data |-> <<>>,              \* the string handed to zlib
   via |-> "",                 \* the zlib function or stream the body goes through
   res |-> FreshRes,
   finishEmitted |-> FALSE,    \* 'finish' was emitted on res
   closeEmitted |-> FALSE,     \* 'close' was emitted on res
   timer |-> "none",           \* none, armed, cleared, fired
   finalizedBy |-> "",         \* who ended res: notfound, sent, error, timeout
   failure |-> "",             \* what failed: read, render, zlib, pipe
   trace |-> <<>>,             \* the steps of the request, in their order
   lateWrite |-> FALSE,        \* a step wrote on res after the timeout ended it
   firedWhenComplete |-> FALSE,\* the timeout callback ran after finish or close
   rejected |-> FALSE]         \* the promise of _sendResponse was rejected

----------------------------------------------------------------------------
(* The resolution runs *)

InitResolve ==
  /\ httpOpts \in ResolveConfigs
  /\ probe = NoProbe
  /\ req = [r \in 1..MaxReq |-> NoRequest]
  /\ crashed = FALSE

\* lines 93-98 of the request handler on one URL
Resolve(reqURL) ==
  /\ ~probe.done
  /\ probe' = Resolution(reqURL)
  /\ UNCHANGED <<httpOpts, req, crashed>>

NextResolve == \E reqURL \in URLs : Resolve(reqURL)

SpecResolve == InitResolve /\ [][NextResolve]_vars

----------------------------------------------------------------------------
(* The render engine: _isBot and the script loop of _ssrExe *)

\* req.headers.host of the render runs
Host_a_io == <<"a", ".", "i", "o", ":", "3", "0", "0", "0">>
Host_cdn_net == <<"c", "d", "n", ".", "n", "e", "t">>
RenderHosts == {Host_a_io, Host_cdn_net}

\* script.src of the script elements, absolute as the DOM gives them
Src_same == <<"h", "t", "t", "p", ":", "/", "/", "a", ".", "i", "o", ":", "3", "0", "0", "0", "/", "a", "p", "p", ".", "j", "s">>
Src_cdn == <<"h", "t", "t", "p", ":", "/", "/", "c", "d", "n", ".", "n", "e", "t", "/", "l", "i", "b", ".", "j", "s">>
Src_evil == <<"h", "t", "t", "p", ":", "/", "/", "a", ".", "i", "o", ".", "e", "v", "i", "l", ".", "o", "r", "g", "/", "a", "p", "p", ".", "j", "s">>
Src_ref == <<"h", "t", "t", "p", ":", "/", "/", "c", "d", "n", ".", "n", "e", "t", "/", "l", "i", "b", ".", "j", "s", "?", "f", "r", "o", "m", "=", "a", ".", "i", "o">>

Scheme == <<"h", "t", "t", "p", ":", "/", "/">>

\* new URL(u).hostname: between the scheme and the first of : / ? #
hostname(u) ==
  LET rest == SubSeq(u, Len(Scheme) + 1, Len(u))
      stops == {i \in 1..Len(rest) : rest[i] \in {":", "/", "?", "#"}}
  IN IF stops = {} THEN rest
     ELSE SubSeq(rest, 1, (CHOOSE i \in stops : \A j \in stops : i <= j) - 1)

\* new URL(u).pathname: from the first / after the host to the first of ? #
pathname(u) ==
  LET rest == SubSeq(u, Len(Scheme) + 1, Len(u))
      slash == IndexOf(rest, "/")
      path == IF slash = 0 THEN <<"/">> ELSE SubSeq(rest, slash, Len(rest))
      stops == {i \in 1..Len(path) : path[i] \in {"?", "#"}}
  IN IF stops = {} THEN path
     ELSE SubSeq(path, 1, (CHOOSE i \in stops : \A j \in stops : i <= j) - 1)

\* the script elements of a page: src ("" without the attribute) and
\* innerHTML ("" when empty)
InlineScript == [src |-> <<>>, innerHTML |-> <<"code">>]
SrcScript(src) == [src |-> src, innerHTML |-> <<>>]
Scripts == {InlineScript, SrcScript(Src_same), SrcScript(Src_cdn),
            SrcScript(Src_evil), SrcScript(Src_ref)}

\* user-agent headers of the classifier runs
UA_none == <<>>
UA_BINGBOT == <<"B", "I", "N", "G", "B", "O", "T", "/", "2", ".", "0">>
UA_Spider == <<"M", "y", "-", "S", "p", "i", "d", "e", "r">>
UA_curl == <<"c", "u", "r", "l", "/", "8", ".", "0">>
UA_Cubot == <<"C", "u", "b", "o", "t", " ", "X", "3", "0">>
UserAgents == {UA_none, UA_Mozilla, UA_Googlebot, UA_BINGBOT, UA_Spider,
               UA_curl, UA_Cubot}

\* the pages of the render runs: their script elements in document order
MaxScripts == 2
Pages == UNION {[1..n -> Scripts] : n \in 0..MaxScripts}

\* the options of the render runs: the least a render needs, then with the
\* ssrModifier of the README (it appends an inline script to the body), then
\* with the settle window of the README, given as 2000 and as 500 ms
RenderOptions ==
  LET base == Options(S_index_html, <<>>, DefaultTimeout, "", "all")
  IN {base,
      base @@ [ssrModifier |-> "appendScript"],
      base @@ [ssrDomMutuationTimeout |-> 2000],
      base @@ [ssrModifier |-> "appendScript", ssrDomMutuationTimeout |-> 500]}

RenderConfigs == {constructor(o) : o \in RenderOptions}

NoRender ==
  [stage |-> "none",           \* none, classified, scripts, settling, serialized, threw
   userAgent |-> <<>>,         \* req.headers['user-agent'] given to _isBot
   bot |-> FALSE,              \* what _isBot returned
   hostname |-> <<>>,          \* url_obj.hostname
   scripts |-> <<>>,           \* document.querySelectorAll('script')
   document |-> <<>>,          \* the script elements that are in the document
   order |-> <<>>,             \* the scripts given to eval, in order
   i |-> 0,                    \* the script the loop stands at
   readFiles |-> {},           \* [script, path] of the files read from disk
   evaluated |-> {},           \* [script, what] given to dom.window.eval
   dom |-> <<>>,               \* the changes made to the document, in order:
                               \* 0 by the modifier, k by script k, and
                               \* Len(scripts) + 1 by a timer a script left
   log |-> <<>>,               \* the calls of _ssrExe, in order
   observer |-> "none",        \* none, observing, disconnected
   waited |-> 0,               \* ms of the timer that ended the settle wait
   renderedHTML |-> <<>>]      \* what _ssrExe returned

InitRender ==
  /\ httpOpts \in RenderConfigs
  /\ probe = NoRender
  /\ req = [r \in 1..MaxReq |-> NoRequest]
  /\ crashed = FALSE

\* _isBot(req)
Classify(userAgent) ==
  /\ probe.stage = "none"
  /\ probe' = [probe EXCEPT !.stage = "classified", !.userAgent = userAgent,
                            !.bot = isBot(userAgent)]
  /\ UNCHANGED <<httpOpts, req, crashed>>

\* a plausible slip: the modifier is never invoked
ssrModifierCall_never(page) ==
  [scripts |-> page, dom |-> <<>>, log |-> <<>>]

\* this.httpOpts.ssrModifier && this.httpOpts.ssrModifier(document): the
\* scripts of the document, the changes and the calls it leaves
ssrModifierCall(page) ==
  IF httpOpts.ssrModifier # "null"
  THEN [scripts |-> page \o <<InlineScript>>, dom |-> <<0>>, log |-> <<"ssrModifier">>]
  ELSE [scripts |-> page, dom |-> <<>>, log |-> <<>>]

\* new MutationObserver, observer.observe(document) and the setTimeout of the
\* settle wait, reached when the script loop is over
observe(p) ==
  [p EXCEPT !.stage = "settling", !.observer = "observing", !.log = @ \o <<"observe">>]

\* _ssrExe from its call to the script loop: url is http://<host>/
JSDOMCreate(host, page) ==
  /\ probe.stage = "none"
  /\ LET modified == ssrModifierCall(page)
         created == [probe EXCEPT
                       !.stage = "scripts",
                       !.hostname = hostname(Scheme \o host \o <<"/">>),
                       !.scripts = modified.scripts,
                       !.document = modified.scripts,
                       !.i = 1,
                       !.dom = modified.dom,
                       !.log = <<"JSDOM">> \o modified.log \o <<"querySelectorAll">>]
     IN probe' = IF Len(modified.scripts) = 0 THEN observe(created) ELSE created
  /\ UNCHANGED <<httpOpts, req, crashed>>

\* the test of the script loop: script.src && script.src.includes(hostname)
readsLocalFile(script, hostName) ==
  script.src # <<>> /\ Contains(script.src, hostName)

\* a plausible slip: the loop goes over a live collection
\* (getElementsByTagName), which grows when a script is inserted
NodeList_live(p) == p.document

\* the list the for loop goes over: the NodeList of querySelectorAll is
\* static, it is what the document had when the loop started
NodeList(p) == p.scripts

\* dom.window.eval of script k: the call and the change it makes; inserts:
\* the evaluated code inserts a script element in the document (the first
\* insertion only is kept)
eval(p, k, what, inserts) ==
  [p EXCEPT !.evaluated = @ \cup {[script |-> k, what |-> what]},
            !.order = @ \o <<k>>,
            !.dom = @ \o <<k>>,
            !.log = @ \o <<"eval">>,
            !.document = IF inserts /\ Len(@) = Len(p.scripts)
                         THEN @ \o <<InlineScript>> ELSE @,
            !.i = @ + 1]

\* one turn of the script loop; onDisk: the file of the script exists,
\* throws: the evaluated code throws, inserts: it inserts a script element
ScriptStep(onDisk, throws, inserts) ==
  /\ probe.stage = "scripts"
  /\ LET script == NodeList(probe)[probe.i]
         scriptFilePath == PathJoin(<<Cwd, httpOpts.staticDir, pathname(script.src)>>)
         after(p) == IF p.i > Len(NodeList(p)) THEN observe(p) ELSE p
         threw(p) == [p EXCEPT !.stage = "threw"]
     IN probe' =
          IF readsLocalFile(script, probe.hostname)
          THEN IF ~onDisk THEN threw(probe)
               ELSE LET read == [probe EXCEPT
                                   !.readFiles = @ \cup {[script |-> probe.i,
                                                          path |-> scriptFilePath]},
                                   !.log = @ \o <<"readFile">>]
                    IN IF throws THEN threw(eval(read, probe.i, "file", inserts))
                       ELSE after(eval(read, probe.i, "file", inserts))
          ELSE IF throws /\ script.innerHTML # <<>>
               THEN threw(eval(probe, probe.i, "innerHTML", inserts))
               ELSE after(eval(probe, probe.i, "innerHTML", inserts))
  /\ UNCHANGED <<httpOpts, req, crashed>>

\* a timer that an evaluated script left changes the document while
\* _ssrExe waits
DomMutation ==
  /\ probe.stage = "settling"
  /\ probe.evaluated # {}
  /\ \A k \in 1..Len(probe.dom) : probe.dom[k] # Len(probe.scripts) + 1
  /\ probe' = [probe EXCEPT !.dom = @ \o <<Len(probe.scripts) + 1>>]
  /\ UNCHANGED <<httpOpts, req, crashed>>

\* the delay given to the setTimeout of the settle wait, in ms
SettleWindow == 100

\* a plausible slip: the HTML that was given to JSDOM is returned
serialize_initialHTML(p) == <<>>

\* dom.serialize(): the document with the changes made so far
serialize(p) == p.dom

\* the callback of the settle timer and what follows the await:
\* observer.disconnect(), resolve(), dom.serialize(), return renderedHTML
Settle ==
  /\ probe.stage = "settling"
  /\ probe' = [probe EXCEPT !.stage = "serialized",
                            !.observer = "disconnected",
                            !.waited = SettleWindow,
                            !.log = @ \o <<"disconnect", "serialize">>,
                            !.renderedHTML = serialize(probe)]
  /\ UNCHANGED <<httpOpts, req, crashed>>

NextRender ==
  \/ \E userAgent \in UserAgents : Classify(userAgent)
  \/ \E host \in RenderHosts, page \in Pages : JSDOMCreate(host, page)
  \/ \E onDisk \in BOOLEAN, throws \in BOOLEAN, inserts \in BOOLEAN :
       ScriptStep(onDisk, throws, inserts)
  \/ DomMutation
  \/ Settle

SpecRender == InitRender /\ [][NextRender]_vars

----------------------------------------------------------------------------
(* The listener: the request handler of start(), _sendResponse,            *)
(* _sendCompressedResponse, the timeout timer and the events of res        *)

Init ==
  /\ httpOpts \in LifeConfigs
  /\ probe = NoProbe
  /\ req = [r \in 1..MaxReq |-> NoRequest]
  /\ crashed = FALSE

\* a plausible slip: the A) block moved in front of the test of existsSync
sendResponseSync_headersFirst(contentType, filePath, exists, acceptEncodingBrowser) ==
  LET res == setHeaders(FreshRes, contentType)
  IN IF ~exists
     THEN [res |-> handleError(res, Msg404(filePath)).res, pc |-> "done",
           finalizedBy |-> "notfound", via |-> "",
           trace |-> <<"setHeaders", "notFound">>]
     ELSE IF contentType = "text/html"
     THEN [res |-> res, pc |-> "readFile", finalizedBy |-> "", via |-> "",
           trace |-> <<"setHeaders", "readFile">>]
     ELSE LET out == sendCompressedStream(res, acceptEncodingBrowser)
          IN [res |-> out.res, pc |-> "piping", finalizedBy |-> "", via |-> out.via,
              trace |-> <<"setHeaders", "createReadStream", "transport">>]

\* _sendResponse from its call to its first await (or to its return)
sendResponseSync(contentType, filePath, exists, acceptEncodingBrowser) ==
  IF ~exists
  THEN [res |-> handleError(FreshRes, Msg404(filePath)).res, pc |-> "done",
        finalizedBy |-> "notfound", via |-> "", trace |-> <<"notFound">>]
  ELSE IF contentType = "text/html"
  THEN [res |-> setHeaders(FreshRes, contentType), pc |-> "readFile",
        finalizedBy |-> "", via |-> "", trace |-> <<"setHeaders", "readFile">>]
  ELSE LET out == sendCompressedStream(setHeaders(FreshRes, contentType),
                                       acceptEncodingBrowser)
       IN [res |-> out.res, pc |-> "piping", finalizedBy |-> "", via |-> out.via,
           trace |-> <<"setHeaders", "createReadStream", "transport">>]

\* the callback of http.createServer: resolution, _sendResponse up to its
\* first await, then the timer and the listeners of 'finish' and 'close'
Request(r, reqURL, exists, acceptEncodingBrowser, userAgent) ==
  /\ ~crashed
  /\ req[r].pc = "none"
  /\ \A q \in 1..(r - 1) : req[q].pc # "none"
  /\ LET rs == Resolution(reqURL)
         out == sendResponseSync(rs.contentType, rs.filePath, exists,
                                 acceptEncodingBrowser)
     IN req' = [req EXCEPT ![r] =
                  [NoRequest EXCEPT !.pc = out.pc,
                                    !.reqURL = reqURL,
                                    !.contentType = rs.contentType,
                                    !.filePath = rs.filePath,
                                    !.exists = exists,
                                    !.acceptEncoding = acceptEncodingBrowser,
                                    !.userAgent = userAgent,
                                    !.res = out.res,
                                    !.via = out.via,
                                    !.finalizedBy = out.finalizedBy,
                                    !.trace = <<"resolve">> \o out.trace,
                                    !.timer = IF httpOpts.timeout > 0
                                              THEN "armed" ELSE "none"]]
  /\ UNCHANGED <<httpOpts, probe, crashed>>

\* what a step of the async function _sendResponse leaves: the catch block,
\* the marks of the history, and the process when the rejection is not handled
Continue(r, step, errMsg, wrote, failure, events) ==
  LET q == req[r]
      c == catch(step, errMsg)
  IN /\ req' = [req EXCEPT ![r] =
                  [q EXCEPT !.pc = c.pc,
                            !.res = c.res,
                            !.data = IF c.pc = "zlib" THEN step.data ELSE @,
                            !.via = step.via,
                            !.finalizedBy = IF c.res.ended /\ ~q.res.ended
                                            THEN (IF step.threw THEN "error" ELSE "sent")
                                            ELSE @,
                            !.lateWrite = @ \/ (wrote /\ q.finalizedBy = "timeout"),
                            !.failure = failure,
                            !.trace = @ \o events
                                        \o (IF step.threw THEN <<"catch">> ELSE <<>>),
                            !.rejected = @ \/ c.rejected]]
     /\ crashed' \in (IF c.rejected THEN BOOLEAN ELSE {FALSE})
     /\ UNCHANGED <<httpOpts, probe>>

\* await fsp.readFile(filePath, 'utf8') settles; then doSSR and, without
\* render, _sendCompressedResponse
ReadFileDone(r, ok) ==
  /\ ~crashed
  /\ req[r].pc = "readFile"
  /\ LET q == req[r]
         ssr == doSSR(q.userAgent)
         step == IF ~ok THEN [res |-> q.res, pc |-> "done", threw |-> TRUE,
                              data |-> <<>>, via |-> ""]
                 ELSE IF ssr THEN [res |-> q.res, pc |-> "ssr", threw |-> FALSE,
                                   data |-> <<>>, via |-> ""]
                 ELSE [data |-> HTML_initial] @@
                      sendCompressedString(q.res, HTML_initial, q.acceptEncoding)
     IN Continue(r, step, IF ok THEN MsgHeadersSent ELSE MsgReadFile(q.filePath),
                 ~(ok /\ ssr), IF ok THEN "" ELSE "read",
                 IF ~ok THEN <<>> ELSE IF ssr THEN <<"render">> ELSE <<"transport">>)

\* await this._ssrExe(url, initialHTML) settles; then _sendCompressedResponse
SsrDone(r, ok) ==
  /\ ~crashed
  /\ req[r].pc = "ssr"
  /\ LET q == req[r]
         step == IF ~ok THEN [res |-> q.res, pc |-> "done", threw |-> TRUE,
                              data |-> <<>>, via |-> ""]
                 ELSE [data |-> HTML_rendered] @@
                      sendCompressedString(q.res, HTML_rendered, q.acceptEncoding)
     IN Continue(r, step, IF ok THEN MsgHeadersSent ELSE MsgRender, TRUE,
                 IF ok THEN "" ELSE "render",
                 IF ok THEN <<"transport">> ELSE <<>>)

\* the callback of zlib.gzip / zlib.deflate; an exception of _handleError
\* in it is caught by nobody
ZlibDone(r, ok) ==
  /\ ~crashed
  /\ req[r].pc = "zlib"
  /\ LET q == req[r]
         h == IF ok THEN [res |-> end(q.res, <<q.via>> \o q.data), threw |-> FALSE]
              ELSE handleError(q.res, MsgZlib)
     IN /\ req' = [req EXCEPT ![r] =
                     [q EXCEPT !.pc = "done",
                               !.res = h.res,
                               !.finalizedBy = IF h.res.ended /\ ~q.res.ended
                                               THEN (IF ok THEN "sent" ELSE "error")
                                               ELSE @,
                               !.failure = IF ok THEN @ ELSE "zlib",
                               !.lateWrite = @ \/ q.finalizedBy = "timeout"]]
        /\ crashed' = h.threw
  /\ UNCHANGED <<httpOpts, probe>>

\* the piped stream ends and ends res, or fails: the 'error' of the read
\* stream has no listener
PipeDone(r, ok) ==
  /\ ~crashed
  /\ req[r].pc = "piping"
  /\ LET q == req[r]
     IN /\ req' = [req EXCEPT ![r] =
                     [q EXCEPT !.pc = "done",
                               !.res = IF ok
                                       THEN end(q.res, (IF q.via = "" THEN <<>>
                                                        ELSE <<q.via>>) \o FileBytes)
                                       ELSE @,
                               !.failure = IF ok THEN @ ELSE "pipe",
                               !.finalizedBy = IF ok /\ ~q.res.ended THEN "sent" ELSE @]]
        /\ crashed' = ~ok
  /\ UNCHANGED <<httpOpts, probe>>

\* the callback of setTimeout: _handleError(res, '408 Request Timeout: ...');
\* its exception is caught by nobody
TimerFire(r) ==
  /\ ~crashed
  /\ req[r].timer = "armed"
  /\ LET q == req[r]
         h == handleError(q.res, Msg408(q.reqURL))
     IN /\ req' = [req EXCEPT ![r] =
                     [q EXCEPT !.timer = "fired",
                               !.res = h.res,
                               !.finalizedBy = IF h.threw THEN @ ELSE "timeout",
                               !.firedWhenComplete = q.finishEmitted \/ q.closeEmitted]]
        /\ crashed' = h.threw
  /\ UNCHANGED <<httpOpts, probe>>

\* res emits 'finish' (after res.end, asynchronously): clearTimeout
EmitFinish(r) ==
  /\ ~crashed
  /\ req[r].pc # "none"
  /\ req[r].res.ended
  /\ ~req[r].finishEmitted
  /\ ~req[r].closeEmitted
  /\ req' = [req EXCEPT ![r].finishEmitted = TRUE,
                        ![r].timer = IF httpOpts.timeout > 0 THEN clearTimeout(@) ELSE @]
  /\ UNCHANGED <<httpOpts, probe, crashed>>

\* res emits 'close' (the connection closed): clearTimeout
EmitClose(r) ==
  /\ ~crashed
  /\ req[r].pc # "none"
  /\ ~req[r].closeEmitted
  /\ req' = [req EXCEPT ![r].closeEmitted = TRUE,
                        ![r].timer = IF httpOpts.timeout > 0 THEN clearTimeout(@) ELSE @]
  /\ UNCHANGED <<httpOpts, probe, crashed>>

Next ==
  \E r \in 1..MaxReq :
    \/ \E q \in LifeRequests, exists \in BOOLEAN :
         Request(r, q.reqURL, exists, q.acceptEncoding, q.userAgent)
    \/ \E ok \in BOOLEAN : ReadFileDone(r, ok)
    \/ \E ok \in BOOLEAN : SsrDone(r, ok)
    \/ \E ok \in BOOLEAN : ZlibDone(r, ok)
    \/ \E ok \in BOOLEAN : PipeDone(r, ok)
    \/ TimerFire(r)
    \/ EmitFinish(r)
    \/ EmitClose(r)

Spec == Init /\ [][Next]_vars

\* the event loop runs every callback that is ready: the completions of the
\* disk reads, of the render, of zlib and of the piped stream, the timers and
\* the 'finish' event; the 'close' event is up to the client
Fairness ==
  \A r \in 1..MaxReq :
    /\ WF_vars(\E ok \in BOOLEAN : ReadFileDone(r, ok))
    /\ WF_vars(\E ok \in BOOLEAN : SsrDone(r, ok))
    /\ WF_vars(\E ok \in BOOLEAN : ZlibDone(r, ok))
    /\ WF_vars(\E ok \in BOOLEAN : PipeDone(r, ok))
    /\ WF_vars(TimerFire(r))
    /\ WF_vars(EmitFinish(r))

SpecFair == Spec /\ Fairness

----------------------------------------------------------------------------
(* The listener with several requests in flight, on one configuration *)

MaxPair == 2

PairConfigs == {Config(S_index_html, <<R_image>>, DefaultTimeout, "gzip", "botsonly")}

\* the requests of these runs: /image/x.zz from Googlebot, whose file exists
\* or not, and /style.css, whose file exists
PairRequests ==
  {[reqURL |-> <<"/">> \o S_image \o <<"/">> \o F_x_zz, exists |-> e,
    acceptEncoding |-> AE_gzip_br, userAgent |-> UA_Googlebot] : e \in BOOLEAN}
  \cup {[reqURL |-> <<"/">> \o F_style_css, exists |-> TRUE,
         acceptEncoding |-> <<>>, userAgent |-> <<>>]}

InitPair ==
  /\ httpOpts \in PairConfigs
  /\ probe = NoProbe
  /\ req = [r \in 1..MaxPair |-> NoRequest]
  /\ crashed = FALSE

NextPair ==
  \E r \in 1..MaxPair :
    \/ \E q \in PairRequests :
         Request(r, q.reqURL, q.exists, q.acceptEncoding, q.userAgent)
    \/ \E ok \in BOOLEAN : ReadFileDone(r, ok)
    \/ \E ok \in BOOLEAN : SsrDone(r, ok)
    \/ \E ok \in BOOLEAN : ZlibDone(r, ok)
    \/ \E ok \in BOOLEAN : PipeDone(r, ok)
    \/ TimerFire(r)
    \/ EmitFinish(r)
    \/ EmitClose(r)

SpecPair == InitPair /\ [][NextPair]_vars

----------------------------------------------------------------------------
(* The construction: new HTTPServer(httpOpts), start() and stop() *)

\* the arguments of new HTTPServer(...): no argument (defined is FALSE), and
\* every choice among six options, the port given or not
ConstructorArgs ==
  LET full == Options(S_index_html, <<>>, 0, "gzip", "all")
      names == {"port", "staticDir", "indexFile", "timeout", "acceptEncoding", "ssr"}
      only(given) == [n \in given |-> full[n]]
  IN {[defined |-> FALSE, opts |-> only({})]}
       \cup {[defined |-> TRUE, opts |-> only(given)] : given \in SUBSET names}

MsgNoOptions == <<"HTTP Server options are not defined.">>
MsgNoPort == <<"The server port is not defined.">>

\* a plausible slip: the port gets a default like the other options
constructorError_defaultPort(arg) ==
  IF ~arg.defined THEN MsgNoOptions ELSE <<>>

\* the message of the Error the constructor throws (the empty string: none)
constructorError(arg) ==
  IF ~arg.defined THEN MsgNoOptions
  ELSE IF ~Given(arg.opts, "port") \/ arg.opts.port = 0 THEN MsgNoPort
  ELSE <<>>

NoServer ==
  [stage |-> "none",           \* none, threw, constructed, listening, closed
   arg |-> [defined |-> FALSE, opts |-> <<>>],
   error |-> <<>>,             \* message of the Error the constructor threw
   object |-> FALSE,           \* new HTTPServer returned an object
   httpServer |-> "null",      \* this.httpServer: null, created
   port |-> 0]                 \* the port given to listen

\* before new HTTPServer there is no httpOpts
InitConstruct ==
  /\ httpOpts = <<>>
  /\ probe = NoServer
  /\ req = [r \in 1..MaxReq |-> NoRequest]
  /\ crashed = FALSE

\* new HTTPServer(arg): throws, or leaves httpOpts and this.httpServer = null
New(arg) ==
  /\ probe.stage = "none"
  /\ LET error == constructorError(arg)
     IN IF error # <<>>
        THEN /\ probe' = [probe EXCEPT !.stage = "threw", !.arg = arg, !.error = error]
             /\ UNCHANGED httpOpts
        ELSE /\ probe' = [probe EXCEPT !.stage = "constructed", !.arg = arg,
                                       !.object = TRUE]
             /\ httpOpts' = constructor(arg.opts)
  /\ UNCHANGED <<req, crashed>>

\* start(): http.createServer(listener) and listen(httpOpts.port), on the
\* object that new returned
Start ==
  /\ probe.object
  /\ probe.stage \in {"constructed", "closed"}
  /\ probe' = [probe EXCEPT !.stage = "listening", !.httpServer = "created",
                            !.port = httpOpts.user.port]
  /\ UNCHANGED <<httpOpts, req, crashed>>

\* stop(): this.httpServer.close()
Stop ==
  /\ probe.stage = "listening"
  /\ probe' = [probe EXCEPT !.stage = "closed"]
  /\ UNCHANGED <<httpOpts, req, crashed>>

NextConstruct ==
  \/ \E arg \in ConstructorArgs : New(arg)
  \/ Start
  \/ Stop

SpecConstruct == InitConstruct /\ [][NextConstruct]_vars

----------------------------------------------------------------------------
(* Claims on the resolution (checked under SpecResolve) *)

Max(S) == CHOOSE x \in S : \A y \in S : y <= x

\* the part of u after its last slash
FinalSegment(u) ==
  LET slashes == {i \in 1..Len(u) : u[i] = "/"}
  IN IF slashes = {} THEN u ELSE SubSeq(u, Max(slashes) + 1, Len(u))

\* the positions of the dots of a segment
Dots(seg) == {i \in 1..Len(seg) : seg[i] = "."}

\* seg after its last dot, and after its last but one dot
AfterLastDot(seg) == SubSeq(seg, Max(Dots(seg)) + 1, Len(seg))
AfterLastButOneDot(seg) ==
  SubSeq(seg, Max(Dots(seg) \ {Max(Dots(seg))}) + 1, Len(seg))

\* <process root>/<staticDir>/<indexFile>
IndexPath == Cwd \o <<"/">> \o httpOpts.staticDir \o <<"/">> \o httpOpts.indexFile

\* the rules of the configuration that match u
MatchingRules(u) ==
  {i \in 1..Len(httpOpts.urlRewrite) : RegTest(httpOpts.urlRewrite[i].key, u)}

\* <process root> joined with u rewritten by rule i
RewrittenBy(i, u) ==
  PathJoin(<<Cwd, RegReplace(httpOpts.urlRewrite[i].key, u, httpOpts.urlRewrite[i].val)>>)

\* C1: a URL (query stripped) whose final segment has no extension resolves to
\* <process root>/<staticDir>/<indexFile>, whatever its depth, with content
\* type text/html
C1_IndexForExtensionless ==
  (probe.done /\ Dots(FinalSegment(probe.reqURL_noquery)) = {})
    => /\ probe.filePath = IndexPath
       /\ probe.contentType = "text/html"

\* a URL two directories deep without extension was resolved to the index file
C1_Witness ==
  /\ probe.done
  /\ probe.reqURL = <<"/", "a", "/">> \o S_image \o <<"/">> \o F_pets \o Q_v47
  /\ probe.filePath = IndexPath

\* C2: when several rewrite rules match the URL, the first matching rule in
\* insertion order alone determines the resolved path
C2_FirstMatchWins ==
  (/\ probe.done
   /\ probe.fileExt # <<>>
   /\ Cardinality(MatchingRules(probe.reqURL_noquery)) >= 2)
    => probe.filePath =
         RewrittenBy(CHOOSE i \in MatchingRules(probe.reqURL_noquery) :
                       \A j \in MatchingRules(probe.reqURL_noquery) : i <= j,
                     probe.reqURL_noquery)

\* C3 as stated: a URL with an extension that matches a rule resolves to
\* <process root> joined with the rewritten URL and the path does not contain
\* the static directory; one that matches no rule resolves to
\* <process root>/<staticDir>/<url>
C3_RewriteNeverUnderStatic ==
  (probe.done /\ probe.fileExt # <<>>)
    => IF MatchingRules(probe.reqURL_noquery) # {}
       THEN /\ \E i \in MatchingRules(probe.reqURL_noquery) :
                 probe.filePath = RewrittenBy(i, probe.reqURL_noquery)
            /\ ~Contains(probe.filePath, <<"/">> \o httpOpts.staticDir \o <<"/">>)
       ELSE probe.filePath =
              Normalize(Cwd \o <<"/">> \o httpOpts.staticDir \o probe.reqURL_noquery)

\* C3 amended: a URL with an extension that matches a rule resolves to
\* <process root> joined with the URL rewritten by a matching rule, without
\* the static directory in front (the path names the static directory only
\* when the rewritten URL does); one that matches no rule resolves to
\* <process root>/<staticDir>/<url>
C3_RewriteFromProcessRoot ==
  (probe.done /\ probe.fileExt # <<>>)
    => IF MatchingRules(probe.reqURL_noquery) # {}
       THEN /\ \E i \in MatchingRules(probe.reqURL_noquery) :
                 probe.filePath = RewrittenBy(i, probe.reqURL_noquery)
            /\ Contains(probe.filePath, <<"/">> \o httpOpts.staticDir \o <<"/">>)
                 => \E i \in MatchingRules(probe.reqURL_noquery) :
                      Contains(RegReplace(httpOpts.urlRewrite[i].key,
                                          probe.reqURL_noquery,
                                          httpOpts.urlRewrite[i].val),
                               <<"/">> \o httpOpts.staticDir \o <<"/">>)
       ELSE probe.filePath =
              Normalize(Cwd \o <<"/">> \o httpOpts.staticDir \o probe.reqURL_noquery)

\* /image/x.webp under the rule ^/image -> /public/img
C3_Witness ==
  /\ probe.done
  /\ httpOpts.urlRewrite = <<R_image>>
  /\ probe.reqURL_noquery = <<"/">> \o S_image \o <<"/">> \o F_x_webp
  /\ probe.filePath = Cwd \o S_public_img \o <<"/">> \o F_x_webp

\* C4: the extension of the final segment is empty without a dot, the part
\* after the dot with exactly one dot, the part after the last but one dot
\* with two dots or more
C4_Extension ==
  probe.done =>
    LET seg == FinalSegment(probe.reqURL_noquery)
    IN CASE Dots(seg) = {} -> probe.fileExt = <<>>
         [] Cardinality(Dots(seg)) = 1 -> probe.fileExt = AfterLastDot(seg)
         [] OTHER -> probe.fileExt = AfterLastButOneDot(seg)

\* file.js.map gave js.map
C4_Witness ==
  /\ probe.done
  /\ FinalSegment(probe.reqURL_noquery) = F_file_js_map
  /\ probe.fileExt = E_js_map

\* the extensions the chain of _solveContentType tests
MimeTable ==
  {E_html, E_htm, E_txt, E_css, E_gif, E_jpg, E_jpeg, E_svg, E_png, E_webp, E_ico,
   E_js, E_json, E_mp4, E_woff, E_woff2, E_ttf, E_css_map, E_js_map}

\* C5: for a name with two dots or more the content type is that of the last
\* two dot-segments when the table has them, and else that of the last
\* dot-segment alone (app.min.js is application/javascript)
C5_FallbackToLastSegment ==
  (probe.done /\ Cardinality(Dots(FinalSegment(probe.reqURL_noquery))) >= 2)
    => LET seg == FinalSegment(probe.reqURL_noquery)
       IN probe.contentType =
            IF AfterLastButOneDot(seg) \in MimeTable
            THEN MimeOf(AfterLastButOneDot(seg))
            ELSE MimeOf(AfterLastDot(seg))

\* u up to its first question mark
BeforeQuery(u) ==
  LET qs == {i \in 1..Len(u) : u[i] = "?"}
  IN IF qs = {} THEN u ELSE SubSeq(u, 1, (CHOOSE i \in qs : \A j \in qs : i <= j) - 1)

\* C26: a URL p?q, the query q empty or not, resolves to the content type and
\* the path that the URL p resolves to
C26_QueryIndependent ==
  probe.done
    => /\ probe.contentType = Resolution(BeforeQuery(probe.reqURL)).contentType
       /\ probe.filePath = Resolution(BeforeQuery(probe.reqURL)).filePath

\* C28: an extension that differs from an extension of the table only in
\* letter case gets the content type of that extension (JS as js)
C28_CaseInsensitiveLookup ==
  (probe.done /\ LowerStr(probe.fileExt) \in MimeTable)
    => probe.contentType = MimeOf(LowerStr(probe.fileExt))

\* C35: the rules are not chained: each rule is tested against the URL of
\* the request and replaces in it, never in what another rule gave; the path
\* is the default under the static directory when no rule matches the URL,
\* and else what one rule that matches the URL makes of that URL
C35_NoChaining ==
  (probe.done /\ probe.fileExt # <<>>)
    => probe.filePath \in
         IF MatchingRules(probe.reqURL_noquery) = {}
         THEN {PathJoin(<<Cwd, httpOpts.staticDir, probe.reqURL_noquery>>)}
         ELSE {RewrittenBy(i, probe.reqURL_noquery) :
                 i \in MatchingRules(probe.reqURL_noquery)}

\* /assets/image/x.webp under the rules image -> img and ^/assets ->
\* /dist/static: the second rule replaced in the URL of the request, which
\* kept its segment image
C35_Witness ==
  /\ probe.done
  /\ httpOpts.urlRewrite = <<R_anyImage, R_assets>>
  /\ probe.reqURL_noquery = <<"/">> \o S_assets \o <<"/">> \o S_image \o <<"/">> \o F_x_webp
  /\ probe.filePath = Cwd \o S_dist_static \o <<"/">> \o S_image \o <<"/">> \o F_x_webp

\* <process root>/<staticDir>/
StaticRoot == Cwd \o <<"/">> \o httpOpts.staticDir \o <<"/">>

\* C33: a URL with an extension that matches no rewrite rule resolves to a
\* path inside <process root>/<staticDir>, whatever '..' segments it has
C33_InsideStaticRoot ==
  (/\ probe.done
   /\ probe.fileExt # <<>>
   /\ MatchingRules(probe.reqURL_noquery) = {})
    => /\ Len(probe.filePath) > Len(StaticRoot)
       /\ SubSeq(probe.filePath, 1, Len(StaticRoot)) = StaticRoot

----------------------------------------------------------------------------
(* Claims on the listener (checked under Spec) *)

Received == {r \in DOMAIN req : req[r].pc # "none"}

\* the requests whose resolved file did not exist
NotFound == {r \in Received : ~req[r].exists}

\* C6: a request whose resolved file does not exist is answered with status
\* 404 and an X-Error header that contains the attempted path, never with 200
C6_NotFoundIs404 ==
  \A r \in NotFound :
    /\ req[r].res.ended
    /\ req[r].res.statusCode = 404
    /\ req[r].res.statusCode # 200
    /\ Contains(req[r].res.xError, req[r].filePath)

\* a not-found answer was flushed
C6_Witness ==
  \E r \in NotFound : req[r].finishEmitted /\ req[r].res.statusCode = 404

\* C7 as stated: in the not-found response the file path is in the X-Error
\* header only, the body never contains it
C7_PathNotInBody ==
  \A r \in NotFound : ~Contains(req[r].res.body, req[r].filePath)

\* C7 amended: in the not-found response the file path is in the X-Error
\* header and in the body, which is the same message as the header
C7_PathInHeaderAndBody ==
  \A r \in NotFound :
    /\ Contains(req[r].res.xError, req[r].filePath)
    /\ req[r].res.body = req[r].res.xError
    /\ req[r].res.contentType = "text/plain"

\* the not-found answer to /style.css
C7_Witness ==
  \E r \in NotFound :
    /\ req[r].reqURL = <<"/">> \o F_style_css
    /\ req[r].res.body = Msg404(Cwd \o <<"/">> \o S_dist \o <<"/">> \o F_style_css)

\* C8: when the timer of a request fires before its response has finished
\* (here: before anything was written) and finalizes it, the status is 408
C8_TimeoutIs408 ==
  \A r \in Received :
    (req[r].timer = "fired" /\ req[r].finalizedBy = "timeout")
      => req[r].res.statusCode = 408

\* C9: once a response has finished or closed its timer is not armed, and the
\* timeout callback never runs for a response that has finished or closed
C9_TimerCancelled ==
  \A r \in Received :
    /\ (req[r].finishEmitted \/ req[r].closeEmitted) => req[r].timer # "armed"
    /\ ~req[r].firedWhenComplete

\* a not-found response, ended before its timer was armed, finished and its
\* timer was cleared
C9_Witness ==
  \E r \in NotFound : req[r].finishEmitted /\ req[r].timer = "cleared"

\* C10: once the timeout has fired and finalized the response, no later step
\* of the request writes on it (writeHead, write or end)
C10_NoWriteAfterTimeout ==
  \A r \in Received : ~req[r].lateWrite

\* the steps of request r, as a set
Steps(r) == {req[r].trace[i] : i \in 1..Len(req[r].trace)}

\* C11: a request whose render failed ends with status 500; the rendered HTML
\* is not sent and status 200 is not written for it
C11_RenderFailureIs500 ==
  \A r \in Received :
    (req[r].failure = "render" /\ req[r].finalizedBy = "error")
      => /\ req[r].res.statusCode = 500
         /\ req[r].res.body # HTML_rendered

\* C12: no not-found condition, render error or timeout rejects the promise
\* of _sendResponse, and no timer that fires after the 200 status line was
\* written stops the process
C12_NothingEscapes ==
  \A r \in Received :
    /\ ~req[r].rejected
    /\ (req[r].timer = "fired" /\ req[r].res.statusCode = 200) => ~crashed

\* C13: a compression error or a read error after the 200 status line was
\* written gives the response a server-error status and ends it
C13_LateFailureIs500 ==
  \A r \in Received :
    req[r].failure \in {"zlib", "pipe"}
      => req[r].res.statusCode = 500 /\ req[r].res.ended

\* the codings an accept-encoding header lists: its comma-separated members,
\* without their parameters
Codings(header) ==
  LET members == Split(header, ",")
  IN {Trim(Split(members[i], ";")[1]) : i \in 1..Len(members)}

\* the algorithm the negotiation of C14 gives
Negotiated(header) ==
  IF httpOpts.acceptEncoding \in {"gzip", "deflate"}
     /\ (IF httpOpts.acceptEncoding = "gzip" THEN AE_gzip ELSE AE_deflate)
          \in Codings(header)
  THEN httpOpts.acceptEncoding
  ELSE ""

\* C14: a 200 response is compressed with algorithm A of gzip, deflate iff A
\* is the configured acceptEncoding and the accept-encoding header of the
\* request lists A; else it is not compressed and has no Content-Encoding;
\* for HTML strings and for streamed files
C14_Negotiation ==
  \A r \in Received :
    req[r].res.statusCode = 200
      => LET A == Negotiated(req[r].acceptEncoding)
         IN /\ req[r].res.contentEncoding = A
            /\ req[r].via = A
            /\ req[r].finalizedBy = "sent"
                 => (req[r].res.body[1] \in {"gzip", "deflate"} <=> A # "")
            /\ req[r].finalizedBy = "sent" /\ A # ""
                 => req[r].res.body[1] = A

\* a page was sent deflated to a client that lists deflate
C14_Witness ==
  \E r \in Received :
    /\ req[r].finalizedBy = "sent"
    /\ req[r].finishEmitted
    /\ req[r].contentType = "text/html"
    /\ req[r].acceptEncoding = AE_deflate
    /\ req[r].res.contentEncoding = "deflate"
    /\ req[r].res.body[1] = "deflate"

\* C15: every response that was sent carries the configured custom headers, a
\* Content-Type, the Server header, and Content-Encoding exactly when its
\* body was compressed
C15_HeadersOnEveryResponse ==
  \A r \in Received :
    req[r].res.headersSent
      => /\ httpOpts.responseHeaders \subseteq req[r].res.custom
         /\ req[r].res.contentType # ""
         /\ req[r].res.server = "@mikosoft/spa-server"
         /\ req[r].res.contentEncoding # "" <=> req[r].via # ""

\* C16: every header configured under the option headers is in every 200
\* response
C16_DocumentedHeadersSent ==
  \A r \in Received :
    req[r].res.statusCode = 200 => httpOpts.headers \subseteq req[r].res.custom

\* the render policy of C17 on request r
PolicyRenders(r) ==
  \/ httpOpts.ssr = "all"
  \/ httpOpts.ssr = "botsonly" /\ isBot(req[r].userAgent)

\* C17: for a request whose file exists, was read and is text/html the render
\* engine is invoked iff the policy is all, or botsonly with a User-Agent the
\* classifier takes for a bot; never with policy none
C17_RenderPolicy ==
  \A r \in Received :
    /\ "render" \in Steps(r)
         => req[r].exists /\ req[r].contentType = "text/html" /\ PolicyRenders(r)
    /\ (/\ req[r].exists
        /\ req[r].contentType = "text/html"
        /\ req[r].pc # "readFile"
        /\ req[r].failure # "read")
         => ("render" \in Steps(r) <=> PolicyRenders(r))
    /\ httpOpts.ssr = "none" => "render" \notin Steps(r)

\* with botsonly the page was rendered for Googlebot and sent
C17_Witness ==
  /\ httpOpts.ssr = "botsonly"
  /\ \E r \in Received :
       /\ req[r].finalizedBy = "sent"
       /\ req[r].userAgent = UA_Googlebot
       /\ "render" \in Steps(r)

\* the order of the steps of a request
Rank(step) ==
  CASE step = "resolve" -> 1
    [] step \in {"notFound", "setHeaders"} -> 2
    [] step \in {"readFile", "createReadStream"} -> 3
    [] step = "render" -> 4
    [] step = "transport" -> 5
    [] OTHER -> 6

\* C20: the steps of a request go resolve, (render), transport; a request
\* whose file does not exist goes from resolve to the not-found response, with
\* no header of the success path, no read and no render; a request that is not
\* text/html is never rendered
C20_Order ==
  \A r \in Received :
    /\ \A i, j \in 1..Len(req[r].trace) :
         i < j => Rank(req[r].trace[i]) < Rank(req[r].trace[j])
    /\ req[r].trace[1] = "resolve"
    /\ ~req[r].exists
         => /\ req[r].trace = <<"resolve", "notFound">>
            /\ req[r].res.server = ""
            /\ req[r].res.custom = {}
            /\ req[r].res.statusCode # 200
    /\ req[r].contentType # "text/html" => "render" \notin Steps(r)

\* under policy all a stylesheet that does not exist was answered with the
\* not-found response
C20_Witness ==
  /\ httpOpts.ssr = "all"
  /\ \E r \in Received :
       /\ ~req[r].exists
       /\ req[r].contentType = "text/css"
       /\ req[r].finishEmitted

\* request r is in a terminal state: its response finished or closed, or the
\* timeout ended it
Terminal(r) ==
  req[r].finishEmitted \/ req[r].closeEmitted \/ req[r].finalizedBy = "timeout"

\* C21: with a timeout other than 0 no request stays un-finalized for ever: a
\* received request that is not in a terminal state has a callback left that
\* the event loop will run (a disk, render, zlib or stream completion, its
\* timer or its 'finish')
C21_NeverStuck ==
  \A r \in Received :
    (httpOpts.timeout # 0 /\ ~Terminal(r))
      => \/ ENABLED (\E ok \in BOOLEAN : ReadFileDone(r, ok))
         \/ ENABLED (\E ok \in BOOLEAN : SsrDone(r, ok))
         \/ ENABLED (\E ok \in BOOLEAN : ZlibDone(r, ok))
         \/ ENABLED (\E ok \in BOOLEAN : PipeDone(r, ok))
         \/ ENABLED TimerFire(r)
         \/ ENABLED EmitFinish(r)

\* C22: the constructor keeps a timeout given as 0 and sets the default only
\* when the option is omitted; with timeout 0 no request has a timer and none
\* is ended by a timeout
C22_ZeroDisablesTimeout ==
  /\ httpOpts.timeout = IF Given(httpOpts.user, "timeout")
                        THEN httpOpts.user.timeout ELSE DefaultTimeout
  /\ httpOpts.timeout = 0
       => \A r \in Received :
            /\ req[r].timer = "none"
            /\ req[r].finalizedBy # "timeout"
            /\ ~req[r].firedWhenComplete

\* with the timeout given as 0 a page was sent and finished, and never had a
\* timer
C22_Witness ==
  /\ Given(httpOpts.user, "timeout")
  /\ httpOpts.user.timeout = 0
  /\ httpOpts.timeout = 0
  /\ \E r \in Received :
       /\ req[r].finalizedBy = "sent"
       /\ req[r].finishEmitted
       /\ req[r].timer = "none"

\* the URL of request r has an extension that the table does not have
UnknownExtension(r) ==
  LET seg == FinalSegment(NoQuery(req[r].reqURL))
  IN /\ Dots(seg) # {}
     /\ (IF Cardinality(Dots(seg)) = 1 THEN AfterLastDot(seg)
         ELSE AfterLastButOneDot(seg)) \notin MimeTable

\* what C27 says of request r but for its path: text/html, no not-found
\* response when the file exists but a read as a document, and the render
\* policy of any document
TreatedAsDocument(r) ==
  /\ req[r].contentType = "text/html"
  /\ req[r].exists => "notFound" \notin Steps(r) /\ "readFile" \in Steps(r)
  /\ "render" \in Steps(r) => req[r].exists /\ PolicyRenders(r)
  /\ (req[r].exists /\ req[r].pc # "readFile" /\ req[r].failure # "read")
       => ("render" \in Steps(r) <=> PolicyRenders(r))

\* C27: a URL with an extension that the table does not have is text/html, is
\* served from <process root>/<staticDir>/<url> and is rendered as the policy
\* says
C27_UnknownServedFromStatic ==
  \A r \in Received :
    UnknownExtension(r)
      => /\ TreatedAsDocument(r)
         /\ req[r].filePath =
              Normalize(Cwd \o <<"/">> \o httpOpts.staticDir \o NoQuery(req[r].reqURL))

\* C27 amended: a URL with an extension that the table does not have is
\* text/html and is rendered as the policy says; it is served from
\* <process root>/<staticDir>/<url> when no rewrite rule matches it, and from
\* the rewritten path when one does
C27_UnknownServedAsDocument ==
  \A r \in Received :
    UnknownExtension(r)
      => /\ TreatedAsDocument(r)
         /\ req[r].filePath \in
              IF MatchingRules(NoQuery(req[r].reqURL)) = {}
              THEN {Normalize(Cwd \o <<"/">> \o httpOpts.staticDir
                                \o NoQuery(req[r].reqURL))}
              ELSE {RewrittenBy(i, NoQuery(req[r].reqURL)) :
                      i \in MatchingRules(NoQuery(req[r].reqURL))}

\* without rewrite rules /image/x.zz was sent with status 200 as text/html
\* from dist/image/x.zz
C27_Witness ==
  /\ httpOpts.urlRewrite = <<>>
  /\ \E r \in Received :
       /\ req[r].reqURL = <<"/">> \o S_image \o <<"/">> \o F_x_zz
       /\ req[r].filePath = Cwd \o <<"/">> \o S_dist \o <<"/">> \o S_image
                              \o <<"/">> \o F_x_zz
       /\ req[r].finalizedBy = "sent"
       /\ req[r].res.statusCode = 200
       /\ req[r].res.contentType = "text/html"

\* C32: in every interleaving of the events of a request writeHead is never
\* called on a response whose headers were sent: the catch block never calls
\* it on such a response (which rejects the promise), the timer callback
\* never does (it then ends nothing), and the zlib callback, which runs after
\* the 200 status line, never calls _handleError
C32_StatusLineOnce ==
  \A r \in Received :
    /\ ~req[r].rejected
    /\ req[r].timer = "fired" => req[r].finalizedBy = "timeout"
    /\ req[r].failure # "zlib"

----------------------------------------------------------------------------
(* Claims on the render engine (checked under SpecRender) *)

\* the letters of the user agents and their lower case
SameLetter(a, b) ==
  \/ a = b
  \/ \E p \in {<<"B", "b">>, <<"C", "c">>, <<"G", "g">>, <<"I", "i">>, <<"M", "m">>,
                <<"N", "n">>, <<"O", "o">>, <<"S", "s">>, <<"T", "t">>, <<"X", "x">>} :
       {a, b} = {p[1], p[2]}

\* word occurs in s, letter case ignored
OccursIgnoringCase(s, word) ==
  \E i \in 1..Len(s) :
    /\ i + Len(word) - 1 <= Len(s)
    /\ \A k \in 1..Len(word) : SameLetter(s[i + k - 1], word[k])

\* C18: the classifier gives true iff the User-Agent matches, letter case
\* ignored, an entry of the crawler list; and false when the header is
\* missing or empty
C18_Classifier ==
  probe.stage = "classified"
    => /\ probe.bot <=> \E sig \in BotSignatures :
                          OccursIgnoringCase(probe.userAgent, sig)
       /\ probe.userAgent = <<>> => ~probe.bot

\* BINGBOT/2.0 was taken for a bot
C18_Witness ==
  /\ probe.stage = "classified"
  /\ probe.userAgent = UA_BINGBOT
  /\ probe.bot

\* C19: a script with a src is read from the static directory and evaluated
\* only if the host of its src is the host of the request; a script of
\* another host is neither read from disk nor evaluated
C19_SameHostOnly ==
  /\ \A f \in probe.readFiles :
       hostname(probe.scripts[f.script].src) = probe.hostname
  /\ \A e \in probe.evaluated :
       e.what = "file" => hostname(probe.scripts[e.script].src) = probe.hostname

\* the places of the call what in the log of a render
Calls(what) == {k \in 1..Len(probe.log) : probe.log[k] = what}

\* C23: a render invokes the configured ssrModifier exactly once, and before
\* the script loop evaluates any script; without an ssrModifier nothing is
\* invoked
C23_ModifierOnceBeforeScripts ==
  probe.stage \in {"scripts", "settling", "serialized", "threw"}
    => /\ Cardinality(Calls("ssrModifier"))
            = IF Given(httpOpts.user, "ssrModifier") THEN 1 ELSE 0
       /\ \A m \in Calls("ssrModifier"), e \in Calls("eval") : m < e

\* a render with an ssrModifier evaluated the script the modifier appended
\* and was serialized
C23_Witness ==
  /\ Given(httpOpts.user, "ssrModifier")
  /\ probe.stage = "serialized"
  /\ Len(probe.scripts) = MaxScripts + 1
  /\ \E e \in probe.evaluated : e.script = Len(probe.scripts)

\* C24: the document is serialized only after every script of the page was
\* evaluated, the settle timer fired and the observer was disconnected, and
\* what the render returns is the document as it is then; nothing is
\* serialized or returned before
C24_SerializedAfterSettle ==
  /\ probe.stage = "serialized"
       => /\ \A k \in 1..Len(probe.scripts) : \E e \in probe.evaluated : e.script = k
          /\ probe.waited > 0
          /\ probe.observer = "disconnected"
          /\ \A s \in Calls("serialize") :
               \A c \in Calls("eval") \cup Calls("observe") \cup Calls("disconnect") : c < s
          /\ Cardinality(Calls("serialize")) = 1
          /\ probe.renderedHTML = probe.dom
  /\ probe.stage # "serialized"
       => Calls("serialize") = {} /\ probe.renderedHTML = <<>>

\* a change made to the document during the settle wait is in the HTML the
\* render returned
C24_Witness ==
  /\ probe.stage = "serialized"
  /\ Len(probe.scripts) = MaxScripts
  /\ probe.renderedHTML # <<>>
  /\ probe.renderedHTML[Len(probe.renderedHTML)] = Len(probe.scripts) + 1

\* C25: the settle wait of a render lasts ssrDomMutuationTimeout ms, and
\* 2000 ms when the option is omitted
C25_SettleWindowIsOption ==
  probe.stage = "serialized"
    => probe.waited = IF Given(httpOpts.user, "ssrDomMutuationTimeout")
                      THEN httpOpts.user.ssrDomMutuationTimeout
                      ELSE 2000

\* C34: the loop evaluates the script elements that the document has when
\* the loop starts (the one the modifier appended included), each once and
\* in document order; the file of a script is read before that script is
\* evaluated and before any later one; a script element inserted while the
\* loop runs is not evaluated by the loop
C34_LoopOrder ==
  probe.stage \in {"scripts", "settling", "serialized", "threw"}
    => /\ probe.order = [k \in 1..Len(probe.order) |-> k]
       /\ Len(probe.order) <= Len(probe.scripts)
       /\ probe.stage \in {"settling", "serialized"}
            => Len(probe.order) = Len(probe.scripts)
       /\ \A f \in probe.readFiles, e \in probe.evaluated :
            f.script = e.script => e.what = "file"
       /\ \A k \in Calls("readFile") :
            k < Len(probe.log) /\ probe.log[k + 1] = "eval"
       /\ Cardinality(Calls("readFile")) = Cardinality(probe.readFiles)

\* a page of two scripts, the first read from disk: a script element was
\* inserted while the loop ran, and the loop evaluated the two scripts only
C34_Witness ==
  /\ probe.stage = "serialized"
  /\ Len(probe.document) = Len(probe.scripts) + 1
  /\ probe.order = <<1, 2>>
  /\ \E f \in probe.readFiles : f.script = 1

----------------------------------------------------------------------------
(* Claims on several requests (checked under SpecPair) *)

C30_RequestsIsolated ==
  [][/\ httpOpts' = httpOpts
     /\ \A r \in 1..MaxPair :
          req'[r] # req[r] => \A q \in 1..MaxPair \ {r} : req'[q] = req[q]
     /\ \A r \in 1..MaxPair :
          (req[r].timer = "armed" /\ req'[r].timer = "fired" /\ crashed')
            => \A q \in Received \ {r} : req[q].res.ended]_vars

----------------------------------------------------------------------------
(* Claims on the construction (checked under SpecConstruct) *)

\* C31: new HTTPServer without options, or with options that have no port,
\* throws an Error of the configuration: no object is returned, no
\* http.Server is created and nothing listens, then or later
C31_NoServerWithoutPort ==
  (probe.stage # "none" /\ (~probe.arg.defined \/ ~Given(probe.arg.opts, "port")))
    => /\ probe.stage = "threw"
       /\ probe.error = IF probe.arg.defined THEN MsgNoPort ELSE MsgNoOptions
       /\ ~probe.object
       /\ httpOpts = <<>>
       /\ probe.httpServer = "null"

\* options with a static directory and a policy but no port made the
\* constructor throw
C31_Witness ==
  /\ probe.stage = "threw"
  /\ probe.arg.defined
  /\ DOMAIN probe.arg.opts = {"staticDir", "ssr"}
  /\ probe.error = MsgNoPort

====
